---- MODULE Spec2Model ----
(***************************************************************************)
(* A model of the hierarchical timer wheel of gotimerwheel.go.             *)
(*                                                                         *)
(* A TimerWheel and the chain of wheels hanging off its `next` pointer is  *)
(* a sequence of levels: tw[1] is the root, tw[k+1] is tw[k].next, and the *)
(* last level is the one whose next pointer is nil.  Times are integers    *)
(* (nanoseconds since the epoch in the tests), durations are integers.     *)
(* A bucket (eventNodeContainer) is the sequence of the events of its      *)
(* linked list, head first.  An Event function is opaque: an event is its  *)
(* due time `at` and the identity `id` of the function scheduled.          *)
(***************************************************************************)
EXTENDS Integers, Sequences, FiniteSets, TLC

VARIABLES
    tw,       \* the chain of levels, root first
    panicked, \* TRUE once an operation indexed a ring out of range
    invoked,  \* every event function invoked so far, in order of invocation
    nsched,   \* number of ScheduleEventAt/In calls made (the next event id)
    rejected, \* the ids of the events those calls refused with ScheduledInPast
    nadv,     \* number of AdvanceTo/AdvanceBy calls made
    call      \* the last call: its arguments and result, and Now(), Length() and
              \* the events due at its instant before it

vars == <<tw, panicked, invoked, nsched, rejected, nadv, call>>

\* gotimerwheel.go:10
ringLength == 32

\* NewTimerWheel(startAt, bucketSize) of the tests (time.Unix(0, 10), 5)
StartAt == 10
BucketSize == 5

\* Bounds of the exploration
MaxEvents == 3
MaxAdvances == 2

Horizon == StartAt + BucketSize * ringLength
\* the instants events are scheduled at: inside the first bucket of the root
\* ring, two instants of the first bucket of the second level, and one of
\* the first bucket of the third level
Times ==
    { StartAt + 3, Horizon, Horizon + 1,
      Horizon + BucketSize * ringLength * ringLength + 2 }
\* the instants the wheel is advanced to
Targets ==
    { StartAt + 3, Horizon, Horizon + BucketSize * ringLength * ringLength + 2 }
\* the durations ScheduleEventIn is called with
Delays == { -1, 0 }
\* the limits AdvanceTo is called with
Limits == { 0, 1 }
\* the durations and the limits AdvanceBy is called with
Intervals == { -1, BucketSize - 1 }
ByLimits == { -1, 2 }

Nil == <<>>

\* Go's integer division truncates toward zero
GoDiv(a, b) == IF a >= 0 THEN a \div b ELSE -((-a) \div b)

\* ------------------------------------------------------------------------
\* eventNodeContainer

\* (mutant) addEvent putting every event at the head
ContainerAddEventHead(c, event) == <<event>> \o c

\* (mutant) addEvent inserting only before a strictly later event, so that
\* an event goes behind those of its own due time
RECURSIVE ContainerAddEventAfterTies(_, _)
ContainerAddEventAfterTies(c, event) ==
    IF c = Nil THEN <<event>>
    ELSE IF event.at < Head(c).at THEN <<event>> \o c
    ELSE <<Head(c)>> \o ContainerAddEventAfterTies(Tail(c), event)

\* eventNodeContainer.addEvent: insert before the first event that is not
\* earlier
RECURSIVE ContainerAddEvent(_, _)
ContainerAddEvent(c, event) ==
    IF c = Nil THEN <<event>>
    ELSE IF event.at < Head(c).at \/ event.at = Head(c).at THEN <<event>> \o c
    ELSE <<Head(c)>> \o ContainerAddEvent(Tail(c), event)

\* eventNodeContainer.length
ContainerLength(c) == Len(c)

\* ------------------------------------------------------------------------
\* TimerWheel

NewTimerWheel(startAt, bucketSize) ==
    [ ring       |-> [i \in 0 .. ringLength - 1 |-> Nil],
      ringIdx    |-> 0,
      now        |-> startAt,
      start      |-> startAt,
      bucketSize |-> bucketSize ]

\* The buckets ring[ringIdx:] of a level
RingTail(w) == { i \in 0 .. ringLength - 1 : i >= w.ringIdx }

\* TimerWheel.Now
Now(chain) == chain[1].now

RECURSIVE SumLen(_, _)
SumLen(w, is) ==
    IF is = {} THEN 0
    ELSE LET i == CHOOSE j \in is : TRUE
         IN ContainerLength(w.ring[i]) + SumLen(w, is \ {i})

\* TimerWheel.Length, from level k of the chain
RECURSIVE LengthFrom(_, _)
LengthFrom(chain, k) ==
    IF k > Len(chain) THEN 0
    ELSE SumLen(chain[k], RingTail(chain[k])) + LengthFrom(chain, k + 1)

Length(chain) == LengthFrom(chain, 1)

\* TimerWheel.IsEmpty, of level k of the chain
IsEmptyAt(chain, k) ==
    IF k < Len(chain) THEN FALSE
    ELSE \A i \in RingTail(chain[k]) : chain[k].ring[i] = Nil

IsEmpty(chain) == IsEmptyAt(chain, 1)

\* (mutant) ensureNext giving the next level this level's bucket size
EnsureNextSameSpan(chain, k) ==
    IF k = Len(chain)
    THEN LET ringWidth == chain[k].bucketSize * ringLength
         IN Append(chain, NewTimerWheel(chain[k].start + ringWidth, chain[k].bucketSize))
    ELSE chain

\* (mutant) ensureNext starting the next level at this level's own start
EnsureNextAtStart(chain, k) ==
    IF k = Len(chain)
    THEN LET ringWidth == chain[k].bucketSize * ringLength
         IN Append(chain, NewTimerWheel(chain[k].start, ringWidth))
    ELSE chain

\* TimerWheel.ensureNext, on level k
EnsureNext(chain, k) ==
    IF k = Len(chain)
    THEN LET ringWidth == chain[k].bucketSize * ringLength
         IN Append(chain, NewTimerWheel(chain[k].start + ringWidth, ringWidth))
    ELSE chain

\* A state of the wheel while an operation runs: the chain and whether the
\* operation has panicked on an index out of range
St(chain, p) == [lv |-> chain, panic |-> p]

\* (mutant) scheduleEventAt storing the event in the active bucket of the
\* level instead of the bucket of its due time
RECURSIVE scheduleEventAtActive(_, _, _)
scheduleEventAtActive(s, k, event) ==
    LET w   == s.lv[k]
        idx == GoDiv(event.at - w.start, w.bucketSize)
    IN IF idx >= ringLength
       THEN scheduleEventAtActive(St(EnsureNext(s.lv, k), s.panic), k + 1, event)
       ELSE IF idx < 0 THEN St(s.lv, TRUE)
       ELSE St([s.lv EXCEPT ![k].ring[w.ringIdx] = <<event>> \o @], s.panic)

\* TimerWheel.scheduleEventAt, on level k: unsorted, at the head
RECURSIVE scheduleEventAt(_, _, _)
scheduleEventAt(s, k, event) ==
    LET w   == s.lv[k]
        idx == GoDiv(event.at - w.start, w.bucketSize)
    IN IF idx >= ringLength
       THEN scheduleEventAt(St(EnsureNext(s.lv, k), s.panic), k + 1, event)
       ELSE IF idx < 0 THEN St(s.lv, TRUE)
       ELSE St([s.lv EXCEPT ![k].ring[idx] = <<event>> \o @], s.panic)

\* (mutant) addEvent putting the event at the head of its bucket, as
\* scheduleEventAt does
AddEventUnsorted(s, k, event) ==
    LET w   == s.lv[k]
        idx == GoDiv(event.at - w.start, w.bucketSize)
    IN IF s.panic \/ idx < 0 \/ idx >= ringLength THEN St(s.lv, TRUE)
       ELSE St([s.lv EXCEPT ![k].ring[idx] = <<event>> \o @], s.panic)

\* TimerWheel.addEvent, on level k
AddEvent(s, k, event) ==
    LET w   == s.lv[k]
        idx == GoDiv(event.at - w.start, w.bucketSize)
    IN IF s.panic \/ idx < 0 \/ idx >= ringLength THEN St(s.lv, TRUE)
       ELSE St([s.lv EXCEPT ![k].ring[idx] = ContainerAddEvent(@, event)], s.panic)

\* (mutant) the loop of fetchFromNext losing the rest of the container once
\* the head has been added
AddEventsHeadOnly(s, k, c) ==
    IF c = Nil THEN s ELSE AddEvent(s, k, Head(c))

\* the loop of fetchFromNext: add the events of a container, head first
RECURSIVE AddEvents(_, _, _)
AddEvents(s, k, c) ==
    IF c = Nil THEN s ELSE AddEvents(AddEvent(s, k, Head(c)), k, Tail(c))

\* (mutant) fetchFromNext never releasing a drained next level
RECURSIVE FetchFromNextKeep(_, _)
FetchFromNextKeep(s, k) ==
    LET w0 == s.lv[k]
        lv1 == [s.lv EXCEPT ![k].ringIdx = 0,
                            ![k].start = w0.start + w0.bucketSize * ringLength]
    IN IF k = Len(lv1) THEN St(lv1, s.panic)
       ELSE LET next == lv1[k + 1]
            IN IF next.ringIdx >= ringLength THEN St(lv1, TRUE)
               ELSE
               LET c     == next.ring[next.ringIdx]
                   lv2   == [lv1 EXCEPT ![k + 1].ring[next.ringIdx] = Nil]
                   s3    == AddEvents(St(lv2, s.panic), k, c)
                   lv4   == [s3.lv EXCEPT ![k + 1].ringIdx = @ + 1,
                                          ![k + 1].now = @ + next.bucketSize]
               IN IF lv4[k + 1].ringIdx = ringLength
                  THEN FetchFromNextKeep(St(lv4, s3.panic), k + 1)
                  ELSE St(lv4, s3.panic)

\* TimerWheel.fetchFromNext, on level k
RECURSIVE FetchFromNext(_, _)
FetchFromNext(s, k) ==
    LET w0 == s.lv[k]
        lv1 == [s.lv EXCEPT ![k].ringIdx = 0,
                            ![k].start = w0.start + w0.bucketSize * ringLength]
    IN IF k = Len(lv1) THEN St(lv1, s.panic)
       ELSE LET next == lv1[k + 1]
            IN IF next.ringIdx >= ringLength THEN St(lv1, TRUE)
               ELSE
               LET c     == next.ring[next.ringIdx]
                   lv2   == [lv1 EXCEPT ![k + 1].ring[next.ringIdx] = Nil]
                   s3    == AddEvents(St(lv2, s.panic), k, c)
                   lv4   == [s3.lv EXCEPT ![k + 1].ringIdx = @ + 1,
                                          ![k + 1].now = @ + next.bucketSize]
               IN IF IsEmptyAt(lv4, k + 1) THEN St(SubSeq(lv4, 1, k), s3.panic)
                  ELSE IF lv4[k + 1].ringIdx = ringLength
                       THEN FetchFromNext(St(lv4, s3.panic), k + 1)
                  ELSE St(lv4, s3.panic)

\* (mutant) ScheduleEventAt refusing an event due exactly at Now()
ScheduleEventAtNotNow(chain, at, e) ==
    LET root  == chain[1]
        event == [at |-> at, id |-> e]
        idx   == GoDiv(at - root.start, root.bucketSize)
    IN IF at <= root.now THEN [err |-> TRUE, lv |-> chain, panic |-> FALSE]
       ELSE IF idx >= ringLength
            THEN LET s == scheduleEventAt(St(EnsureNext(chain, 1), FALSE), 2, event)
                 IN [err |-> FALSE, lv |-> s.lv, panic |-> s.panic]
       ELSE IF idx < 0 THEN [err |-> FALSE, lv |-> chain, panic |-> TRUE]
       ELSE [err |-> FALSE, panic |-> FALSE,
             lv |-> [chain EXCEPT ![1].ring[idx] = ContainerAddEvent(@, event)]]

\* (mutant) ScheduleEventAt refusing only an event due before the start of
\* the ring instead of before Now()
ScheduleEventAtFromStart(chain, at, e) ==
    LET root  == chain[1]
        event == [at |-> at, id |-> e]
        idx   == GoDiv(at - root.start, root.bucketSize)
    IN IF at < root.start THEN [err |-> TRUE, lv |-> chain, panic |-> FALSE]
       ELSE IF idx >= ringLength
            THEN LET s == scheduleEventAt(St(EnsureNext(chain, 1), FALSE), 2, event)
                 IN [err |-> FALSE, lv |-> s.lv, panic |-> s.panic]
       ELSE IF idx < 0 THEN [err |-> FALSE, lv |-> chain, panic |-> TRUE]
       ELSE [err |-> FALSE, panic |-> FALSE,
             lv |-> [chain EXCEPT ![1].ring[idx] = ContainerAddEvent(@, event)]]

\* (mutant) ScheduleEventAt attaching a next level before it looks at the
\* index of the event
ScheduleEventAtEager(chain, at, e) ==
    LET root  == chain[1]
        event == [at |-> at, id |-> e]
        idx   == GoDiv(at - root.start, root.bucketSize)
    IN IF at < root.now THEN [err |-> TRUE, lv |-> chain, panic |-> FALSE]
       ELSE IF idx >= ringLength
            THEN LET s == scheduleEventAt(St(EnsureNext(chain, 1), FALSE), 2, event)
                 IN [err |-> FALSE, lv |-> s.lv, panic |-> s.panic]
       ELSE IF idx < 0 THEN [err |-> FALSE, lv |-> chain, panic |-> TRUE]
       ELSE [err |-> FALSE, panic |-> FALSE,
             lv |-> [EnsureNext(chain, 1) EXCEPT ![1].ring[idx] = ContainerAddEvent(@, event)]]

\* TimerWheel.ScheduleEventAt: the error returned and the state after
ScheduleEventAt(chain, at, e) ==
    LET root  == chain[1]
        event == [at |-> at, id |-> e]
        idx   == GoDiv(at - root.start, root.bucketSize)
    IN IF at < root.now THEN [err |-> TRUE, lv |-> chain, panic |-> FALSE]
       ELSE IF idx >= ringLength
            THEN LET s == scheduleEventAt(St(EnsureNext(chain, 1), FALSE), 2, event)
                 IN [err |-> FALSE, lv |-> s.lv, panic |-> s.panic]
       ELSE IF idx < 0 THEN [err |-> FALSE, lv |-> chain, panic |-> TRUE]
       ELSE [err |-> FALSE, panic |-> FALSE,
             lv |-> [chain EXCEPT ![1].ring[idx] = ContainerAddEvent(@, event)]]

\* TimerWheel.ScheduleEventIn
ScheduleEventIn(chain, in, e) == ScheduleEventAt(chain, chain[1].now + in, e)

\* (mutant) the inner loop stopping at an event due exactly at the target
RECURSIVE InvokeCountBefore(_, _, _, _)
InvokeCountBefore(c, now, limit, execCount) ==
    IF c # Nil /\ Head(c).at < now
    THEN IF limit > 0 /\ limit = execCount THEN 0
         ELSE 1 + InvokeCountBefore(Tail(c), now, limit, execCount + 1)
    ELSE 0

\* (mutant) the inner loop testing the limit after the invocation
RECURSIVE InvokeCountLate(_, _, _, _)
InvokeCountLate(c, now, limit, execCount) ==
    IF c # Nil /\ ~(now < Head(c).at)
    THEN IF limit > 0 /\ limit < execCount THEN 0
         ELSE 1 + InvokeCountLate(Tail(c), now, limit, execCount + 1)
    ELSE 0

\* the inner loop of AdvanceTo: how many events of the container are invoked
RECURSIVE InvokeCount(_, _, _, _)
InvokeCount(c, now, limit, execCount) ==
    IF c # Nil /\ ~(now < Head(c).at)
    THEN IF limit > 0 /\ limit = execCount THEN 0
         ELSE 1 + InvokeCount(Tail(c), now, limit, execCount + 1)
    ELSE 0

\* One pass of the outer loop of AdvanceTo.  a is the state of the call: the
\* wheel, the local bucketStart and execCount, the events invoked by the
\* call, and done once the loop has been left (its condition failed or a
\* break was taken)
AdvanceStep(a, now, limit) ==
    LET root == a.lv[1]
    IN IF a.done THEN a
       ELSE IF a.panic \/ now < root.now THEN [a EXCEPT !.done = TRUE]
       ELSE
       LET c         == root.ring[root.ringIdx]
           n         == InvokeCount(c, now, limit, a.execCount)
           event     == IF n = 0 THEN c ELSE SubSeq(c, n + 1, Len(c))
           execCount == a.execCount + n
           out       == IF n = 0 THEN a.out ELSE a.out \o SubSeq(c, 1, n)
           lv1       == IF n = 0 THEN a.lv
                        ELSE [a.lv EXCEPT ![1].ring[root.ringIdx] = event]
       IN IF event = Nil
          THEN LET bucketStart == a.bucketStart + root.bucketSize
               IN IF ~(now < bucketStart)
                  THEN IF root.ringIdx + 1 = ringLength
                       THEN LET s3 == FetchFromNext(
                                        St([lv1 EXCEPT ![1].ringIdx = @ + 1,
                                                       ![1].now = bucketStart], FALSE), 1)
                            IN [lv |-> s3.lv, panic |-> s3.panic, done |-> FALSE,
                                bucketStart |-> bucketStart,
                                execCount |-> execCount, out |-> out]
                       ELSE [lv |-> [lv1 EXCEPT ![1].ringIdx = @ + 1,
                                                ![1].now = bucketStart],
                             panic |-> FALSE, done |-> FALSE,
                             bucketStart |-> bucketStart,
                             execCount |-> execCount, out |-> out]
                  ELSE [lv |-> lv1, panic |-> FALSE, done |-> TRUE,
                        bucketStart |-> bucketStart,
                        execCount |-> execCount, out |-> out]
          ELSE IF limit > 0 /\ limit = execCount
               THEN [lv |-> [lv1 EXCEPT ![1].now = Head(event).at],
                     panic |-> FALSE, done |-> TRUE, bucketStart |-> a.bucketStart,
                     execCount |-> execCount, out |-> out]
          ELSE [lv |-> lv1, panic |-> FALSE, done |-> TRUE,
                bucketStart |-> a.bucketStart,
                execCount |-> execCount, out |-> out]

\* n passes of the loop, halved so that the evaluation stays shallow
RECURSIVE AdvancePasses(_, _, _, _)
AdvancePasses(a, now, limit, n) ==
    IF n <= 1 THEN AdvanceStep(a, now, limit)
    ELSE LET h == AdvancePasses(a, now, limit, n \div 2)
         IN IF h.done THEN h ELSE AdvancePasses(h, now, limit, n - n \div 2)

\* the outer loop of AdvanceTo, run until it is left
RECURSIVE AdvanceLoop(_, _, _, _)
AdvanceLoop(a, now, limit, n) ==
    LET r == AdvancePasses(a, now, limit, n)
    IN IF r.done THEN r ELSE AdvanceLoop(r, now, limit, 2 * n)

\* (mutant) AdvanceTo keeping the clock the loop left when the limit stopped it
AdvanceToKeepClock(chain, now, limit) ==
    IF now < chain[1].now
    THEN [ret |-> 0, out |-> <<>>, lv |-> chain, panic |-> FALSE]
    ELSE LET root == chain[1]
             a == AdvanceLoop([lv |-> chain, panic |-> FALSE, done |-> FALSE,
                               bucketStart |-> root.start + root.ringIdx * root.bucketSize,
                               execCount |-> 0, out |-> <<>>], now, limit, ringLength)
         IN [ret |-> a.execCount, out |-> a.out, panic |-> a.panic,
             lv |-> IF a.panic \/ (limit > 0 /\ limit = a.execCount) THEN a.lv
                    ELSE [a.lv EXCEPT ![1].now = now]]

\* (mutant) AdvanceTo without its test of a target before Now()
AdvanceToUnguarded(chain, now, limit) ==
    LET root == chain[1]
        a == AdvanceLoop([lv |-> chain, panic |-> FALSE, done |-> FALSE,
                          bucketStart |-> root.start + root.ringIdx * root.bucketSize,
                          execCount |-> 0, out |-> <<>>], now, limit, ringLength)
    IN [ret |-> a.execCount, out |-> a.out, panic |-> a.panic,
        lv |-> IF a.panic THEN a.lv ELSE [a.lv EXCEPT ![1].now = now]]

\* TimerWheel.AdvanceTo: the count returned, the events invoked, the state after
AdvanceTo(chain, now, limit) ==
    IF now < chain[1].now
    THEN [ret |-> 0, out |-> <<>>, lv |-> chain, panic |-> FALSE]
    ELSE LET root == chain[1]
             a == AdvanceLoop([lv |-> chain, panic |-> FALSE, done |-> FALSE,
                               bucketStart |-> root.start + root.ringIdx * root.bucketSize,
                               execCount |-> 0, out |-> <<>>], now, limit, ringLength)
         IN [ret |-> a.execCount, out |-> a.out, panic |-> a.panic,
             lv |-> IF a.panic THEN a.lv ELSE [a.lv EXCEPT ![1].now = now]]

\* TimerWheel.AdvanceBy
AdvanceBy(chain, interval, limit) == AdvanceTo(chain, chain[1].now + interval, limit)

\* ------------------------------------------------------------------------
\* The calls a client makes

\* every event stored in a level, whatever its bucket
EventsOfLevel(w) == UNION { { w.ring[i][j] : j \in 1 .. Len(w.ring[i]) } : i \in 0 .. ringLength - 1 }

\* every event stored in the chain
Pending(chain) == UNION { EventsOfLevel(chain[k]) : k \in 1 .. Len(chain) }

\* the pending events due at or before t
Due(chain, t) == { e \in Pending(chain) : e.at <= t }

Init ==
    /\ tw = <<NewTimerWheel(StartAt, BucketSize)>>
    /\ panicked = FALSE
    /\ invoked = <<>>
    /\ nsched = 0
    /\ rejected = {}
    /\ nadv = 0
    /\ call = [op |-> "NewTimerWheel", at |-> StartAt, limit |-> 0, ret |-> 0,
               err |-> FALSE, out |-> <<>>, nowBefore |-> StartAt,
               dueBefore |-> {}, lenBefore |-> 0]

DoSchedule(op, at, r) ==
    /\ tw' = r.lv
    /\ panicked' = r.panic
    /\ invoked' = invoked
    /\ nsched' = nsched + 1
    /\ rejected' = IF r.err THEN rejected \cup {nsched} ELSE rejected
    /\ nadv' = nadv
    /\ call' = [op |-> op, at |-> at, limit |-> 0, ret |-> 0, err |-> r.err,
                out |-> <<>>, nowBefore |-> Now(tw),
                dueBefore |-> Due(tw, at), lenBefore |-> Length(tw)]

CallScheduleEventAt ==
    /\ ~panicked /\ nsched < MaxEvents
    /\ \E at \in Times : \E r \in {ScheduleEventAt(tw, at, nsched)} :
          DoSchedule("ScheduleEventAt", at, r)

CallScheduleEventIn ==
    /\ ~panicked /\ nsched < MaxEvents
    /\ \E in \in Delays : \E r \in {ScheduleEventIn(tw, in, nsched)} :
          DoSchedule("ScheduleEventIn", Now(tw) + in, r)

DoAdvance(op, now, limit, r) ==
    /\ tw' = r.lv
    /\ panicked' = r.panic
    /\ invoked' = invoked \o r.out
    /\ UNCHANGED <<nsched, rejected>>
    /\ nadv' = nadv + 1
    /\ call' = [op |-> op, at |-> now, limit |-> limit, ret |-> r.ret, err |-> FALSE,
                out |-> r.out, nowBefore |-> Now(tw),
                dueBefore |-> Due(tw, now), lenBefore |-> Length(tw)]

CallAdvanceTo ==
    /\ ~panicked /\ nadv < MaxAdvances
    /\ \E now \in Targets, limit \in Limits : \E r \in {AdvanceTo(tw, now, limit)} :
          DoAdvance("AdvanceTo", now, limit, r)

CallAdvanceBy ==
    /\ ~panicked /\ nadv < MaxAdvances
    /\ \E interval \in Intervals, limit \in ByLimits : \E r \in {AdvanceBy(tw, interval, limit)} :
          DoAdvance("AdvanceBy", Now(tw) + interval, limit, r)

Next ==
    \/ CallScheduleEventAt
    \/ CallScheduleEventIn
    \/ CallAdvanceTo
    \/ CallAdvanceBy

Spec == Init /\ [][Next]_vars

\* ------------------------------------------------------------------------
\* Properties

IsAdvance == call.op \in {"AdvanceTo", "AdvanceBy"}
IsSchedule == call.op \in {"ScheduleEventAt", "ScheduleEventIn"}
\* the last call was an advance to an instant not before Now()
Forward == IsAdvance /\ call.at >= call.nowBefore
\* the events the last call invoked
Out == { call.out[i] : i \in 1 .. Len(call.out) }
Min(a, b) == IF a < b THEN a ELSE b
\* the first instant of the third level
ThirdLevel == Horizon + BucketSize * ringLength * ringLength

\* C1 (exhaustiveness): an advance to T >= Now() with limit <= 0 completes,
\* invokes exactly the events that were pending with due time <= T, whatever
\* level held them, invokes none due after T, leaves none of them pending,
\* and returns the number of events it invoked.
C1_Exhaustive ==
    (Forward /\ call.limit <= 0) =>
        /\ ~panicked
        /\ Out = call.dueBefore
        /\ \A e \in Out : e.at <= call.at
        /\ Due(tw, call.at) = {}
        /\ call.ret = Len(call.out)
        /\ call.ret = Cardinality(call.dueBefore)

\* an unlimited advance invoked events of the root ring, of the second and
\* of the third level, and left nothing due
C1_Witness ==
    /\ Forward /\ call.limit <= 0 /\ call.ret = 3
    /\ \E e \in Out : e.at < Horizon
    /\ \E e \in Out : e.at >= Horizon /\ e.at < ThirdLevel
    /\ \E e \in Out : e.at >= ThirdLevel

\* C2 (firing order): over all the calls made, no event is invoked after an
\* event whose due time is strictly later.
C2_FiringOrder ==
    \A i, j \in 1 .. Len(invoked) : i < j => invoked[i].at <= invoked[j].at

\* three events of three distinct due times, scheduled out of order, were
\* invoked over two advances, the second of which took one from a next level
C2_Witness ==
    /\ Len(invoked) = 3 /\ nadv = 2
    /\ Len(call.out) \in 1 .. 2
    /\ invoked[1].at < invoked[2].at /\ invoked[2].at < invoked[3].at
    /\ invoked[1].id > invoked[2].id
    /\ invoked[3].at >= Horizon

\* C3 (rejection): a schedule call returns ScheduledInPast exactly when its
\* instant is strictly before Now() at the call; a refused call leaves the
\* wheel as it was (levels, buckets, indexes, Now() and Length()), and no
\* advance ever invokes a refused event.
C3_Rejection ==
    [][ /\ (call'.op \in {"ScheduleEventAt", "ScheduleEventIn"}) =>
            /\ call'.err <=> (call'.at < Now(tw))
            /\ call'.err => /\ tw' = tw
                            /\ invoked' = invoked
                            /\ Length(tw') = Length(tw)
                            /\ Now(tw') = Now(tw)
            /\ ~call'.err => Length(tw') = Length(tw) + 1
        /\ \A i \in 1 .. Len(invoked') : invoked'[i].id \notin rejected' ]_vars

\* an event was refused by a wheel of two levels holding events, and a later
\* advance invoked events
C3_Witness ==
    /\ rejected # {} /\ IsAdvance /\ call.ret >= 1
    /\ \E i \in 1 .. Len(invoked) : \E r \in rejected : invoked[i].id > r

\* C4 (limit respect and progress), as claimed: a call with a positive limit
\* n invokes at most n events and no event twice, and calls repeated with
\* the same target T reach every event pending with due time <= T; a call
\* that invokes nothing leaves the pending events as they are, so that it
\* may only return 0 when no event due at or before T is pending.
C4_LimitAndProgress ==
    (IsAdvance /\ call.limit > 0) =>
        /\ call.ret <= call.limit
        /\ \A i, j \in 1 .. Len(invoked) : i # j => invoked[i].id # invoked[j].id
        /\ call.ret = 0 => Due(tw, call.at) = {}

\* C5 (exact count under a limit): an advance to T >= Now() with limit n > 0
\* completes and invokes and returns exactly min(n, k) events, k the number
\* of events pending with due time <= T on any level.
C5_ExactCount ==
    (Forward /\ call.limit > 0) =>
        /\ ~panicked
        /\ call.ret = Min(call.limit, Cardinality(call.dueBefore))
        /\ Len(call.out) = call.ret
        /\ Out \subseteq call.dueBefore
        /\ Cardinality(Out) = call.ret

\* a limited advance stopped at its limit with due events left, the event it
\* invoked having come down from a next level
C5_Witness ==
    /\ Forward /\ call.limit > 0 /\ call.ret = call.limit
    /\ Cardinality(call.dueBefore) > call.limit
    /\ \E e \in Out : e.at >= Horizon

C7_ClockIsLastInvoked ==
    (Forward /\ call.limit > 0 /\ call.ret = call.limit) =>
        Now(tw) = call.out[call.ret].at

\* the last advance was cut short by its limit: it invoked as many events
\* as the limit allows and left events due at its target
CutShort(c, chain) ==
    /\ c.op \in {"AdvanceTo", "AdvanceBy"}
    /\ c.limit > 0 /\ c.ret = c.limit
    /\ Due(chain, c.at) # {}

\* C8 (resumption), as claimed: after an advance cut short by its limit, an
\* event pending with due time <= Now() is invoked by the next advance whose
\* target is at or after that due time (here: even an unlimited one).
C8_Resumption ==
    [][ (CutShort(call, tw) /\ call'.op \in {"AdvanceTo", "AdvanceBy"}
                            /\ call'.limit <= 0) =>
            \A e \in Pending(tw) :
                (e.at <= Now(tw) /\ call'.at >= e.at) =>
                    \E i \in 1 .. Len(call'.out) : call'.out[i] = e ]_vars

\* C9 (monotonicity): Now() never decreases from one call to the next.
C9_Monotonic ==
    [][ Now(tw') >= Now(tw) ]_vars

\* an advance to an instant before Now() was made after the clock had moved
C9_Witness ==
    /\ IsAdvance /\ call.at < call.nowBefore
    /\ call.nowBefore > StartAt
    /\ Now(tw) = call.nowBefore

\* C10 (backward advance): an advance to an instant strictly before Now()
\* returns 0, invokes nothing and leaves the whole wheel as it was, also when
\* events with due time at or before that instant are pending.
C10_BackwardNoOp ==
    [][ (call'.op \in {"AdvanceTo", "AdvanceBy"} /\ call'.at < Now(tw)) =>
            /\ call'.ret = 0
            /\ call'.out = <<>>
            /\ invoked' = invoked
            /\ tw' = tw
            /\ panicked' = panicked ]_vars

\* a backward advance was made on a wheel of two levels with an event due at
\* or before its target still pending
C10_Witness ==
    /\ IsAdvance /\ call.at < call.nowBefore
    /\ call.ret = 0
    /\ Due(tw, call.at) # {}
    /\ Len(tw) >= 2

\* the events of a sequence
Range(q) == { q[i] : i \in 1 .. Len(q) }

\* C11 (inclusive boundary), as claimed: an event scheduled at T >= Now(),
\* T = Now() included, is accepted and enqueued and the schedule call
\* invokes nothing; no advance invokes an event due after its target; and
\* an unlimited advance to T' invokes every pending event due at T <= T',
\* T' = T included.
C11_InclusiveBoundary ==
    [][ /\ (call'.op \in {"ScheduleEventAt", "ScheduleEventIn"} /\ call'.at >= Now(tw)) =>
            /\ ~call'.err
            /\ [at |-> call'.at, id |-> nsched] \in Pending(tw')
            /\ invoked' = invoked
        /\ (call'.op \in {"AdvanceTo", "AdvanceBy"}) =>
            /\ \A e \in Range(call'.out) : e.at <= call'.at
            /\ call'.limit <= 0 =>
                  \A e \in Pending(tw) : e.at <= call'.at => e \in Range(call'.out) ]_vars

\* the part of C11 that the code keeps: the same, for advances to a target
\* not before Now()
C11_ForwardPart ==
    [][ /\ (call'.op \in {"ScheduleEventAt", "ScheduleEventIn"} /\ call'.at >= Now(tw)) =>
            /\ ~call'.err
            /\ [at |-> call'.at, id |-> nsched] \in Pending(tw')
            /\ invoked' = invoked
        /\ (call'.op \in {"AdvanceTo", "AdvanceBy"}) =>
            /\ \A e \in Range(call'.out) : e.at <= call'.at
            /\ (call'.limit <= 0 /\ call'.at >= Now(tw)) =>
                  \A e \in Pending(tw) : e.at <= call'.at => e \in Range(call'.out) ]_vars

\* C12 (emptiness agrees with length): between calls IsEmpty() is true
\* exactly when Length() is 0; and once no event is stored on any level,
\* IsEmpty() is true and no next level is attached.
C12_EmptyIffZero ==
    /\ IsEmpty(tw) <=> (Length(tw) = 0)
    /\ Pending(tw) = {} => (IsEmpty(tw) /\ Length(tw) = 0 /\ Len(tw) = 1)

\* three events, one of each level, have all been invoked, the last call
\* having drained and released the next levels
C12_Witness ==
    /\ IsAdvance /\ call.lenBefore >= 1 /\ Len(invoked) = 3
    /\ \E i \in 1 .. Len(invoked) : invoked[i].at >= ThirdLevel
    /\ \E i \in 1 .. Len(invoked) : invoked[i].at >= Horizon /\ invoked[i].at < ThirdLevel
    /\ IsEmpty(tw) /\ Length(tw) = 0

\* The reference of C13: a clock and a flat list of the due times of the
\* pending events, sorted ascending.
RECURSIVE SortedTimes(_)
SortedTimes(S) ==
    IF S = {} THEN <<>>
    ELSE LET e == CHOOSE x \in S : \A y \in S : x.at <= y.at
         IN <<e.at>> \o SortedTimes(S \ {e})

\* the flat schedule a wheel stands for
FlatOf(chain) == [now |-> Now(chain), list |-> SortedTimes(Pending(chain))]

RECURSIVE FlatInsert(_, _)
FlatInsert(list, t) ==
    IF list = <<>> THEN <<t>>
    ELSE IF t <= Head(list) THEN <<t>> \o list
    ELSE <<Head(list)>> \o FlatInsert(Tail(list), t)

FlatScheduleAt(f, at) ==
    IF at < f.now THEN [err |-> TRUE, f |-> f]
    ELSE [err |-> FALSE, f |-> [f EXCEPT !.list = FlatInsert(@, at)]]

FlatAdvanceTo(f, target, limit) ==
    IF target < f.now THEN [ret |-> 0, out |-> <<>>, f |-> f]
    ELSE LET k == Cardinality({ i \in 1 .. Len(f.list) : f.list[i] <= target })
             n == IF limit > 0 THEN Min(limit, k) ELSE k
         IN [ret |-> n, out |-> SubSeq(f.list, 1, n),
             f |-> [now |-> target, list |-> SubSeq(f.list, n + 1, Len(f.list))]]

\* C13 (cascade correctness): every call does to the wheel what it does to
\* the flat sorted schedule the wheel stands for: a schedule call is accepted
\* or refused alike, an advance returns the same count and invokes events of
\* the same due times in the same order, and Now() and Length() agree after
\* the call; no call fails on a ring index.
C13_FlatEquivalence ==
    [][ /\ (call'.op \in {"ScheduleEventAt", "ScheduleEventIn"}) =>
            LET r == FlatScheduleAt(FlatOf(tw), call'.at)
            IN call'.err = r.err /\ FlatOf(tw') = r.f
        /\ (call'.op \in {"AdvanceTo", "AdvanceBy"}) =>
            LET r == FlatAdvanceTo(FlatOf(tw), call'.at, call'.limit)
            IN /\ call'.ret = r.ret
               /\ [i \in 1 .. Len(call'.out) |-> call'.out[i].at] = r.out
               /\ FlatOf(tw') = r.f
        /\ Length(tw') = Len(FlatOf(tw').list)
        /\ ~panicked' ]_vars

\* a limited advance invoked an event that had travelled down from the third
\* level and left another one pending
C13_Witness ==
    /\ Forward /\ call.limit > 0 /\ call.ret = call.limit
    /\ \E e \in Out : e.at >= ThirdLevel
    /\ Pending(tw) # {}
    /\ Len(invoked) >= 2


\* the identities of the events of a set
Ids(S) == { e.id : e \in S }

\* the schedule calls that succeeded so far
Accepted == (0 .. nsched - 1) \ rejected

\* C14 (conservation of records): Length() is the number of schedule calls
\* that succeeded minus the number of events invoked so far; a successful
\* schedule raises Length() by exactly 1 at whichever level the event lands;
\* every accepted event is either stored exactly once or was invoked exactly
\* once, so a cascade neither loses nor duplicates one.
C14_Conservation ==
    /\ Length(tw) = Cardinality(Accepted) - Len(invoked)
    /\ (IsSchedule /\ ~call.err) => Length(tw) = call.lenBefore + 1
    /\ (IsSchedule /\ call.err) => Length(tw) = call.lenBefore
    /\ Length(tw) = Cardinality(Ids(Pending(tw)))
    /\ Len(invoked) = Cardinality(Ids(Range(invoked)))
    /\ Ids(Pending(tw)) \cap Ids(Range(invoked)) = {}
    /\ Ids(Pending(tw)) \cup Ids(Range(invoked)) = Accepted

\* a cascade brought two events of one next-level bucket into the root; one
\* was invoked, the other still waits in the root
C14_Witness ==
    /\ IsAdvance /\ Len(tw) = 1 /\ Length(tw) >= 1
    /\ \E e \in Out : e.at >= Horizon /\ e.at < ThirdLevel
    /\ \E f \in Pending(tw) : f.at >= Horizon /\ f.at < ThirdLevel
    /\ \E i \in 1 .. Len(invoked) : invoked[i].at < Horizon


\* the event sits in the bucket of level w that covers its due time
InBucketRange(w, i, e) ==
    /\ w.start + i * w.bucketSize <= e.at
    /\ e.at < w.start + (i + 1) * w.bucketSize

\* C15 (bucket range): at every level of the chain, an event stored in bucket
\* i, 0 <= i < ringLength, is due within
\* [start + i*bucketSize, start + (i+1)*bucketSize) of that level; no
\* insertion, direct or by a cascade, computes an index outside the ring.
C15_BucketRange ==
    /\ ~panicked
    /\ \A k \in 1 .. Len(tw) :
          /\ DOMAIN tw[k].ring = 0 .. ringLength - 1
          /\ \A i \in DOMAIN tw[k].ring : \A j \in 1 .. Len(tw[k].ring[i]) :
                InBucketRange(tw[k], i, tw[k].ring[i][j])

\* an event waits in the root after a cascade brought it down, and another
\* one waits in the last bucket of a next level created after the root wrapped
C15_Witness ==
    /\ Len(tw) = 2 /\ tw[1].start > StartAt
    /\ tw[2].ring[ringLength - 1] # Nil
    /\ \E e \in EventsOfLevel(tw[1]) : e.at >= Horizon /\ e.id < 2
    /\ Len(invoked) >= 1


\* C16 (sorted root buckets): every bucket of the root level holds its events
\* in non-decreasing order of due time, after direct insertions, advances cut
\* short by a limit, and cascades out of unsorted next-level buckets.
C16_RootSorted ==
    \A i \in DOMAIN tw[1].ring :
       \A j \in 1 .. Len(tw[1].ring[i]) - 1 :
          tw[1].ring[i][j].at <= tw[1].ring[i][j + 1].at

\* an advance cut short by its limit left, in one root bucket, two events that
\* a cascade took from a next-level bucket where the later one was ahead
C16_Witness ==
    /\ IsAdvance /\ call.limit > 0 /\ call.ret = call.limit
    /\ \E i \in DOMAIN tw[1].ring :
          /\ Len(tw[1].ring[i]) >= 2
          /\ tw[1].ring[i][1].at >= Horizon
          /\ tw[1].ring[i][1].at < tw[1].ring[i][2].at
          /\ tw[1].ring[i][1].id < tw[1].ring[i][2].id


\* the position of event e in the sequence q, 0 when it is not there
Pos(q, e) == IF e \in Range(q) THEN CHOOSE i \in 1 .. Len(q) : q[i] = e ELSE 0

\* C17 (tie order), as claimed: of two pending events with the same due time,
\* the one scheduled later is invoked first, whether they were inserted into a
\* root bucket directly or came down from a next level: an advance never
\* invokes the earlier-scheduled one ahead of the later-scheduled one, nor
\* invokes it and leaves the later-scheduled one pending.
C17_MostRecentFirst ==
    [][ (call'.op \in {"AdvanceTo", "AdvanceBy"}) =>
           /\ \A i, j \in 1 .. Len(call'.out) :
                 (i < j /\ call'.out[i].at = call'.out[j].at) =>
                     call'.out[i].id > call'.out[j].id
           /\ \A e \in Range(call'.out) : \A f \in Pending(tw') :
                 e.at = f.at => e.id > f.id ]_vars

\* C17 (tie order), amended: an event that a schedule call inserts into a
\* root bucket goes ahead of every event of the same due time already in that
\* bucket, and the events of one due time in a root bucket are invoked in the
\* order of the bucket; so it is invoked before them.
C17_RootTieOrder ==
    [][ /\ (call'.op \in {"ScheduleEventAt", "ScheduleEventIn"} /\ ~call'.err) =>
           LET new == [at |-> call'.at, id |-> nsched]
               idx == GoDiv(call'.at - tw[1].start, tw[1].bucketSize)
           IN idx < ringLength =>
                 /\ new \in Range(tw'[1].ring[idx])
                 /\ \A f \in Range(tw[1].ring[idx]) :
                       f.at = new.at =>
                          /\ f \in Range(tw'[1].ring[idx])
                          /\ Pos(tw'[1].ring[idx], new) < Pos(tw'[1].ring[idx], f)
        /\ (call'.op \in {"AdvanceTo", "AdvanceBy"}) =>
           \A i \in DOMAIN tw[1].ring : \A j1, j2 \in 1 .. Len(tw[1].ring[i]) :
              LET e == tw[1].ring[i][j1]
                  f == tw[1].ring[i][j2]
              IN (j1 < j2 /\ e.at = f.at /\ f \in Range(call'.out)) =>
                    /\ e \in Range(call'.out)
                    /\ Pos(call'.out, e) < Pos(call'.out, f) ]_vars

\* three events of one due time, each inserted into the same root bucket, were
\* invoked by one advance, the last scheduled first
C17_Witness ==
    /\ IsAdvance /\ Len(call.out) = 3
    /\ call.out[1].at = call.out[2].at /\ call.out[2].at = call.out[3].at
    /\ call.out[1].at < Horizon
    /\ call.out[1].id > call.out[2].id /\ call.out[2].id > call.out[3].id


\* the events stored at the levels after level k of the chain
PendingAfter(chain, k) == UNION { EventsOfLevel(chain[j]) : j \in k + 1 .. Len(chain) }

\* C18 (drained levels are released): after every call, a level with a next
\* level attached has at least one event stored in that next level or behind
\* it, and the next level does not report empty; the chain grows only in an
\* accepted schedule call whose event overflows the root ring, and shrinks
\* only in an advance.
C18_NextNeverEmpty ==
    [][ /\ \A k \in 1 .. Len(tw') - 1 :
              /\ PendingAfter(tw', k) # {}
              /\ LengthFrom(tw', k + 1) > 0
              /\ ~IsEmptyAt(tw', k + 1)
        /\ Len(tw') > Len(tw) =>
              /\ call'.op \in {"ScheduleEventAt", "ScheduleEventIn"} /\ ~call'.err
              /\ GoDiv(call'.at - tw[1].start, tw[1].bucketSize) >= ringLength
        /\ Len(tw') < Len(tw) => call'.op \in {"AdvanceTo", "AdvanceBy"} ]_vars

\* an advance invoked an event the cascade took out of the second level, which
\* now holds nothing itself and stays attached for the event in the third
C18_Witness ==
    /\ IsAdvance /\ Len(tw) = 3
    /\ tw[2].ringIdx >= 1 /\ EventsOfLevel(tw[2]) = {}
    /\ \E e \in Out : e.at >= Horizon
    /\ PendingAfter(tw, 2) # {}


\* C19 (level alignment): for every level with a next level attached, the
\* next level's bucket size is this level's bucket size times ringLength, and
\* the next level's active bucket starts where this level's ring ends:
\* next.start + next.ringIdx * next.bucketSize = start + ringLength * bucketSize.
C19_LevelAlignment ==
    \A k \in 1 .. Len(tw) - 1 :
       /\ tw[k + 1].bucketSize = tw[k].bucketSize * ringLength
       /\ tw[k + 1].start + tw[k + 1].ringIdx * tw[k + 1].bucketSize
             = tw[k].start + ringLength * tw[k].bucketSize

\* a next level was attached after the root had wrapped, and holds an event in
\* its last bucket
C19_Witness ==
    /\ IsSchedule /\ ~call.err /\ Len(tw) = 2
    /\ tw[1].start = Horizon /\ tw[2].start = Horizon + BucketSize * ringLength
    /\ tw[2].ringIdx = 0
    /\ [at |-> call.at, id |-> nsched - 1] \in Range(tw[2].ring[ringLength - 1])


\* the events stored in the buckets ring[ringIdx:] of a level
EventsOfTail(w) == UNION { Range(w.ring[i]) : i \in RingTail(w) }

\* C20 (no record behind the active index): every level has
\* 0 <= ringIdx < ringLength and nothing stored in a bucket below ringIdx; the
\* root has Now() >= start + ringIdx * bucketSize; and the event of an
\* accepted schedule call is stored in a bucket at or after the active one of
\* its level, where Length() counts it.
C20_NothingBehind ==
    /\ ~panicked
    /\ \A k \in 1 .. Len(tw) :
          /\ 0 <= tw[k].ringIdx /\ tw[k].ringIdx < ringLength
          /\ \A i \in DOMAIN tw[k].ring : i < tw[k].ringIdx => tw[k].ring[i] = Nil
    /\ Now(tw) >= tw[1].start + tw[1].ringIdx * tw[1].bucketSize
    /\ (IsSchedule /\ ~call.err) =>
          /\ \E k \in 1 .. Len(tw) :
                [at |-> call.at, id |-> nsched - 1] \in EventsOfTail(tw[k])
          /\ Length(tw) = call.lenBefore + 1

\* a schedule call was accepted while Now() was past the end of the active
\* root bucket, which still holds an event that an advance cut short by its
\* limit left behind
C20_Witness ==
    /\ IsSchedule /\ ~call.err
    /\ Now(tw) >= tw[1].start + (tw[1].ringIdx + 1) * tw[1].bucketSize
    /\ \E e \in Range(tw[1].ring[tw[1].ringIdx]) : e.at < Now(tw) /\ e.id < nsched - 1
    /\ Len(invoked) >= 1

====
